---- MODULE Spec2Model ----
(***************************************************************************)
(* Model of xsd_converter.py: the XSD -> JSON Schema translator.           *)
(*                                                                         *)
(* An input is a sequence of lexical units (characters, raw bytes and tag  *)
(* markup).  A call decodes it, rejects blank text, parses it into a node  *)
(* table in document order, and then runs the two loops of                 *)
(* xsd_to_json_schema over the table.  JSON fragments are TLA+ records,    *)
(* `properties` mappings are functions from names to fragments, `required` *)
(* lists are sequences.                                                    *)
(*                                                                         *)
(* extract_namespaces (lines 88-117) only builds the `namespaces` mapping, *)
(* which every other function passes on and none reads; it has no effect   *)
(* on the result and is left out.                                          *)
(***************************************************************************)
EXTENDS Integers, Sequences, FiniteSets, TLC

VARIABLES pc, xsd_content, text, root, todo, json_schema, result, lexicon, calls

vars == <<pc, xsd_content, text, root, todo, json_schema, result, lexicon, calls>>

(***************************************************************************)
(* Bounds                                                                  *)
(***************************************************************************)
\* longest raw (non-template) input, in lexical units
MaxRaw == 3
\* interpreter frame limit (sys.getrecursionlimit(), scaled down)
RecursionLimit == 10
\* number of top-level calls in one behaviour
MaxCalls == 2

(***************************************************************************)
(* Program constants                                                       *)
(***************************************************************************)
JSON_SCHEMA_DRAFT == "http://json-schema.org/draft-07/schema#"

XSD_TO_JSON_TYPE_MAPPING ==
  [k \in {"xs:string", "xs:integer", "xs:int", "xs:long", "xs:short",
          "xs:decimal", "xs:float", "xs:double", "xs:boolean", "xs:date",
          "xs:time", "xs:dateTime", "xs:duration", "xs:anyURI",
          "xs:base64Binary", "xs:hexBinary", "xs:ID", "xs:IDREF",
          "xs:NMTOKEN", "xs:token"} |->
     CASE k \in {"xs:integer", "xs:int", "xs:long", "xs:short"} -> [type |-> "integer"]
       [] k \in {"xs:decimal", "xs:float", "xs:double"} -> [type |-> "number"]
       [] k = "xs:boolean" -> [type |-> "boolean"]
       [] k = "xs:date" -> [type |-> "string", format |-> "date"]
       [] k = "xs:time" -> [type |-> "string", format |-> "time"]
       [] k = "xs:dateTime" -> [type |-> "string", format |-> "dateTime"]
       [] k = "xs:anyURI" -> [type |-> "string", format |-> "uri"]
       [] k = "xs:base64Binary" -> [type |-> "string", contentEncoding |-> "base64"]
       [] OTHER -> [type |-> "string"]]

(***************************************************************************)
(* Python values                                                           *)
(***************************************************************************)
\* element.get(k) of an attribute that is not written: None
Absent == "<None>"
\* a qualified name without a colon has no prefix
NoPrefix == "<no-colon>"
\* an attribute value kept as a character sequence, when not written
AbsentV == <<"<None>">>

\* truth value of a plain string attribute
Truthy(s) == s # Absent /\ s # ""
\* truth value of a character-sequence attribute
TruthyV(v) == v # AbsentV /\ v # <<>>
\* a name "p:l" is kept as [prefix |-> p, local |-> l]; "l" as [NoPrefix, l]
QN(p, l) == [prefix |-> p, local |-> l]
AbsentQ == QN(NoPrefix, Absent)
TruthyQ(q) == ~(q.prefix = NoPrefix /\ q.local \in {Absent, ""})
\* ':' in s
HasColon(q) == q.prefix # NoPrefix

\* d[k] = v on a dict (properties mapping or fragment)
Put(d, k, v) == [x \in (DOMAIN d) \cup {k} |-> IF x = k THEN v ELSE d[x]]
\* d.update(e)
Update(d, e) == [x \in (DOMAIN d) \cup (DOMAIN e) |-> IF x \in DOMAIN e THEN e[x] ELSE d[x]]
\* x in list
InList(x, l) == \E i \in 1..Len(l) : l[i] = x

(***************************************************************************)
(* Lexical units of an input                                               *)
(***************************************************************************)
Chr(c) == [k |-> "chr", c |-> c]
Byte(b) == [k |-> "byte", b |-> b]
\* characters: XML white space, a Unicode space that is not XML white space
\* (U+00A0), and a letter
SP == Chr(" ")
NL == Chr("\n")
NBSP == Chr("nbsp")
LETTER == Chr("x")

AT0 == [name |-> Absent, type |-> AbsentQ, ref |-> AbsentQ, minOccurs |-> AbsentV,
        maxOccurs |-> AbsentV, use |-> Absent, base |-> Absent, value |-> AbsentV]
Open(tag, at) == [k |-> "open", tag |-> tag, at |-> at]
Close(tag) == [k |-> "close", tag |-> tag]
\* <tag .../>
Empty(tag, at) == <<Open(tag, at), Close(tag)>>
\* <tag ...> body </tag>
El(tag, at, body) == <<Open(tag, at)>> \o body \o <<Close(tag)>>

(***************************************************************************)
(* bytes.decode('utf-8'), line 51.  ASCII units decode to themselves, the  *)
(* pair C2 A0 decodes to U+00A0, any other byte >= 0x80 is invalid.        *)
(***************************************************************************)
RECURSIVE decode(_)
decode(data) ==
  IF data = <<>> THEN [ok |-> TRUE, text |-> <<>>]
  ELSE IF data[1].k # "byte"
       THEN LET r == decode(Tail(data))
            IN [ok |-> r.ok, text |-> <<data[1]>> \o r.text]
       ELSE IF Len(data) >= 2 /\ data[1] = Byte(194) /\ data[2] = Byte(160)
            THEN LET r == decode(Tail(Tail(data)))
                 IN [ok |-> r.ok, text |-> <<NBSP>> \o r.text]
            ELSE [ok |-> FALSE, text |-> <<>>]

\* str.isspace() of one unit
IsSpace(u) == u \in {SP, NL, NBSP}

\* str.strip(), line 53
RECURSIVE lstrip(_)
lstrip(s) == IF s # <<>> /\ IsSpace(s[1]) THEN lstrip(Tail(s)) ELSE s
RECURSIVE rstrip(_)
rstrip(s) == IF s # <<>> /\ IsSpace(s[Len(s)]) THEN rstrip(SubSeq(s, 1, Len(s) - 1)) ELSE s
strip(s) == rstrip(lstrip(s))

\* `not xsd_content.strip()`, line 53
IsBlank_NoStrip(s) == s = <<>>
IsBlank(s) == strip(s) = <<>>

(***************************************************************************)
(* ET.fromstring, line 57.  The node table lists the elements in document  *)
(* order; node 1 is the root and `parent` is 0 for it.  A document is well *)
(* formed when it has exactly one root element, every end tag matches the  *)
(* open element, and only XML white space stands outside the root.         *)
(***************************************************************************)
ParseFail == [ok |-> FALSE, nodes |-> <<>>]
RECURSIVE ParseFrom(_, _, _, _)
ParseFrom(toks, i, nodes, stack) ==
  IF i > Len(toks)
  THEN IF stack = <<>> /\ nodes # <<>> THEN [ok |-> TRUE, nodes |-> nodes] ELSE ParseFail
  ELSE LET t == toks[i] IN
       CASE t.k = "chr" ->
              IF stack = <<>> /\ t \notin {SP, NL} THEN ParseFail
              ELSE ParseFrom(toks, i + 1, nodes, stack)
         [] t.k = "open" ->
              IF stack = <<>> /\ nodes # <<>> THEN ParseFail
              ELSE ParseFrom(toks, i + 1,
                             Append(nodes, [tag |-> t.tag, at |-> t.at,
                                            parent |-> IF stack = <<>> THEN 0 ELSE stack[Len(stack)]]),
                             Append(stack, Len(nodes) + 1))
         [] t.k = "close" ->
              IF stack = <<>> \/ nodes[stack[Len(stack)]].tag # t.tag THEN ParseFail
              ELSE ParseFrom(toks, i + 1, nodes, SubSeq(stack, 1, Len(stack) - 1))
         [] OTHER -> ParseFail
fromstring(s) == ParseFrom(s, 1, <<>>, <<>>)

(***************************************************************************)
(* ElementTree searches                                                    *)
(***************************************************************************)
RECURSIVE IsAncestor(_, _, _)
\* a is a proper ancestor of n
IsAncestor(nodes, a, n) ==
  LET p == nodes[n].parent
  IN IF p = 0 THEN FALSE ELSE p = a \/ IsAncestor(nodes, a, p)

Indices(nodes) == [i \in 1..Len(nodes) |-> i]
\* n.findall('.//xs:tag'): descendants in document order
findall_desc(nodes, n, tag) ==
  SelectSeq(Indices(nodes), LAMBDA i : nodes[i].tag = tag /\ IsAncestor(nodes, n, i))
\* n.findall('./xs:tag'): children in document order
findall_child(nodes, n, tag) ==
  SelectSeq(Indices(nodes), LAMBDA i : nodes[i].tag = tag /\ nodes[i].parent = n)
\* find(): first match, 0 for None
First(s) == IF s = <<>> THEN 0 ELSE s[1]

(***************************************************************************)
(* Type Resolver                                                           *)
(***************************************************************************)
\* find_referenced_element, lines 207-225
find_referenced_element(nodes, ref) ==
  LET local_name == ref.local
  IN First(SelectSeq(findall_desc(nodes, 1, "element"),
                     LAMBDA i : nodes[i].at.name = local_name))

\* find_type_definition, lines 228-249
find_type_definition(nodes, type_name) ==
  LET complex_type == First(SelectSeq(findall_desc(nodes, 1, "complexType"),
                                      LAMBDA i : nodes[i].at.name = type_name))
      simple_type == First(SelectSeq(findall_desc(nodes, 1, "simpleType"),
                                     LAMBDA i : nodes[i].at.name = type_name))
  IN IF complex_type # 0 THEN complex_type
     ELSE IF simple_type # 0 THEN simple_type
     ELSE 0

(***************************************************************************)
(* Type Lexicon lookup                                                     *)
(***************************************************************************)
STRING_FRAGMENT == [type |-> "string"]
DATETIME_FRAGMENT == [type |-> "string", format |-> "dateTime"]

\* the key f'{prefix}:{local_name}'
Key(prefix, local_name) == prefix \o ":" \o local_name

\* map_simple_type, lines 652-674
map_simple_type(xsd_type) ==
  IF xsd_type = QN(NoPrefix, "dateTime") THEN DATETIME_FRAGMENT
  ELSE IF HasColon(xsd_type) /\ xsd_type.prefix \in {"xs", "xsd"} /\ xsd_type.local = "dateTime"
       THEN DATETIME_FRAGMENT
       ELSE LET key == IF HasColon(xsd_type)
                       THEN IF xsd_type.prefix \in {"xs", "xsd"}
                            THEN Key("xs", xsd_type.local)
                            ELSE Key(xsd_type.prefix, xsd_type.local)
                       ELSE xsd_type.local
            IN IF key \in DOMAIN lexicon THEN lexicon[key] ELSE STRING_FRAGMENT

(***************************************************************************)
(* Python number parsing over character sequences                          *)
(***************************************************************************)
DIGITS == <<"0", "1", "2", "3", "4", "5", "6", "7", "8", "9">>
IsAsciiDigit(c) == \E d \in 1..10 : DIGITS[d] = c
DigitVal(c) == (CHOOSE d \in 1..10 : DIGITS[d] = c) - 1
\* a character for which str.isdigit() holds and int() fails (U+00B2)
SUPERSCRIPT_TWO == "sup2"
\* str.isdigit()
isdigit(v) == v # <<>> /\ \A i \in 1..Len(v) : IsAsciiDigit(v[i]) \/ v[i] = SUPERSCRIPT_TWO
AllAsciiDigits(v) == v # <<>> /\ \A i \in 1..Len(v) : IsAsciiDigit(v[i])
RECURSIVE DigitsValue(_)
DigitsValue(v) ==
  IF v = <<>> THEN 0 ELSE DigitsValue(SubSeq(v, 1, Len(v) - 1)) * 10 + DigitVal(v[Len(v)])
StripV(v) ==
  LET keep == {i \in 1..Len(v) : v[i] # " "}
  IN IF keep = {} THEN <<>>
     ELSE SubSeq(v, CHOOSE i \in keep : \A j \in keep : i <= j,
                    CHOOSE i \in keep : \A j \in keep : i >= j)
Unsigned(v) == IF v # <<>> /\ v[1] \in {"-", "+"} THEN Tail(v) ELSE v
Sign(v) == IF v # <<>> /\ v[1] = "-" THEN -1 ELSE 1
\* int(s): [ok, n]; ok = FALSE stands for ValueError
IntOfStripped(s) ==
  IF AllAsciiDigits(Unsigned(s))
  THEN [ok |-> TRUE, n |-> Sign(s) * DigitsValue(Unsigned(s))]
  ELSE [ok |-> FALSE, n |-> 0]
int(v) == IntOfStripped(StripV(v))
\* float(s) where int(s) failed: [ok, x]; the value is kept in its lexical form
float(v) ==
  LET s == Unsigned(StripV(v))
      dots == {i \in 1..Len(s) : s[i] = "."}
  IN IF /\ Cardinality(dots) <= 1
        /\ \E i \in 1..Len(s) : IsAsciiDigit(s[i])
        /\ \A i \in 1..Len(s) : IsAsciiDigit(s[i]) \/ s[i] = "."
     THEN [ok |-> TRUE, x |-> [float |-> StripV(v)]]
     ELSE [ok |-> FALSE, x |-> [float |-> <<>>]]

(***************************************************************************)
(* Restriction Mapper                                                      *)
(***************************************************************************)
\* extract_enum_values, lines 290-305
extract_enum_values_Reversed(nodes, simple_type) ==
  LET enums == SelectSeq(findall_desc(nodes, simple_type, "enumeration"),
                         LAMBDA i : nodes[i].at.value # AbsentV)
  IN [i \in 1..Len(enums) |-> nodes[enums[Len(enums) + 1 - i]].at.value]
extract_enum_values(nodes, simple_type) ==
  LET enums == SelectSeq(findall_desc(nodes, simple_type, "enumeration"),
                         LAMBDA i : nodes[i].at.value # AbsentV)
  IN [i \in 1..Len(enums) |-> nodes[enums[i]].at.value]

\* f.get('value') of a facet element found with find(); None when there is
\* no such element
ValueOf(nodes, f) == IF f = 0 THEN AbsentV ELSE nodes[f].at.value
FacetValue(nodes, restriction, facet) ==
  ValueOf(nodes, First(findall_child(nodes, restriction, facet)))

\* schema[key] = int(value) inside try/except ValueError
StoreInt(schema, key, value, i) ==
  IF TruthyV(value) /\ i.ok THEN Put(schema, key, i.n) ELSE schema
\* schema[key] = int(value), or float(value) when int raises ValueError
StoreNumber(schema, key, value, i, x) ==
  IF ~TruthyV(value) THEN schema
  ELSE IF i.ok THEN Put(schema, key, i.n)
  ELSE IF x.ok THEN Put(schema, key, x.x)
  ELSE schema
\* schema['pattern'] = value
StorePattern(schema, value) ==
  IF TruthyV(value) THEN Put(schema, "pattern", value) ELSE schema

\* the int of a facet value; None and '' are never parsed
IntOfValue(value) == IF TruthyV(value) THEN int(value) ELSE [ok |-> FALSE, n |-> 0]
FloatOfValue(value) ==
  IF TruthyV(value) THEN float(value) ELSE [ok |-> FALSE, x |-> [float |-> <<>>]]

\* one `int(...)`-only facet of add_restrictions (lines 321-333)
IntFacetOf(schema, key, value) == StoreInt(schema, key, value, IntOfValue(value))
IntFacet(nodes, restriction, facet, key, schema) ==
  IntFacetOf(schema, key, FacetValue(nodes, restriction, facet))

\* one int-then-float facet of add_restrictions (lines 340-379)
NumFacetOf(schema, key, value) ==
  StoreNumber(schema, key, value, IntOfValue(value), FloatOfValue(value))
NumFacet(nodes, restriction, facet, key, schema) ==
  NumFacetOf(schema, key, FacetValue(nodes, restriction, facet))

\* the pattern facet of add_restrictions (lines 335-337)
PatternFacet(nodes, restriction, schema) ==
  StorePattern(schema, FacetValue(nodes, restriction, "pattern"))

\* add_restrictions, lines 308-379
add_restrictions_SwapBounds(nodes, simple_type, schema) ==
  LET restriction == First(findall_desc(nodes, simple_type, "restriction"))
  IN IF restriction = 0 THEN schema
     ELSE NumFacet(nodes, restriction, "maxExclusive", "exclusiveMaximum",
          NumFacet(nodes, restriction, "minExclusive", "exclusiveMinimum",
          NumFacet(nodes, restriction, "maxInclusive", "minimum",
          NumFacet(nodes, restriction, "minInclusive", "maximum",
          PatternFacet(nodes, restriction,
          IntFacet(nodes, restriction, "maxLength", "maxLength",
          IntFacet(nodes, restriction, "minLength", "minLength", schema)))))))
add_restrictions(nodes, simple_type, schema) ==
  LET restriction == First(findall_desc(nodes, simple_type, "restriction"))
  IN IF restriction = 0 THEN schema
     ELSE NumFacet(nodes, restriction, "maxExclusive", "exclusiveMaximum",
          NumFacet(nodes, restriction, "minExclusive", "exclusiveMinimum",
          NumFacet(nodes, restriction, "maxInclusive", "maximum",
          NumFacet(nodes, restriction, "minInclusive", "minimum",
          PatternFacet(nodes, restriction,
          IntFacet(nodes, restriction, "maxLength", "maxLength",
          IntFacet(nodes, restriction, "minLength", "minLength", schema)))))))

\* process_simple_type, lines 252-287
\* restriction.get('base') (lines 266-268); None when there is no restriction
BaseOf(nodes, restriction) ==
  IF restriction # 0 THEN nodes[restriction].at.base ELSE Absent
\* lines 263-277: the schema a base type starts from
BaseSchema(base) ==
  IF ~Truthy(base) THEN STRING_FRAGMENT
  ELSE CASE base \in {"xs:integer", "xs:int", "xs:long", "xs:short"} ->
              [type |-> "integer"]
         [] base \in {"xs:decimal", "xs:float", "xs:double"} ->
              [type |-> "number"]
         [] base = "xs:boolean" -> [type |-> "boolean"]
         [] base = "xs:dateTime" -> DATETIME_FRAGMENT
         [] OTHER -> STRING_FRAGMENT
\* lines 280-282: schema['enum'] = enum_values when there are any
WithEnum(schema, enum_values) ==
  IF enum_values # <<>> THEN Put(schema, "enum", enum_values) ELSE schema

process_simple_type(nodes, simple_type) ==
  add_restrictions(nodes, simple_type,
    WithEnum(BaseSchema(BaseOf(nodes, First(findall_desc(nodes, simple_type, "restriction")))),
             extract_enum_values(nodes, simple_type)))

(***************************************************************************)
(* Element/Type Processor.  A call made with `d` frames already on the     *)
(* stack raises RecursionError when d = RecursionLimit.  Results carry     *)
(* `err`, the exception that left the call ("none" when it returned).      *)
(***************************************************************************)
OBJECT_FRAGMENT == [type |-> "object", properties |-> <<>>]
Ok(v) == [err |-> "none", v |-> v]
Raise(e) == [err |-> e, v |-> STRING_FRAGMENT]
\* f"{element_path}.{name}" if element_path else name
JoinPath(element_path, name) ==
  IF element_path # "" THEN element_path \o "." \o name ELSE name

\* A call that re-enters the processor.  process_element and
\* process_complex_type call each other through every branch of the type
\* dispatch; `Invoke` is the call itself, and the two operators below it name
\* the callee.
RECURSIVE Invoke(_)
call_process_element(nodes, element, properties, element_path, d) ==
  Invoke(<<"process_element", nodes, element, properties, element_path, d>>)
call_process_complex_type(nodes, complex_type, element_path, d) ==
  Invoke(<<"process_complex_type", nodes, complex_type, element_path, d>>)

\* lookup of a named type and dispatch on its tag (lines 488-497; the same
\* code stands at 167-175, 178-186, 500-508, 594-602 and 605-613)
named_type_fragment_RaiseUnresolved(nodes, type_name, path, d) ==
  LET type_def == find_type_definition(nodes, type_name)
  IN IF type_def # 0
     THEN IF nodes[type_def].tag = "simpleType"
          THEN Ok(process_simple_type(nodes, type_def))
          ELSE call_process_complex_type(nodes, type_def, path, d)
     ELSE Raise("KeyError")
named_type_fragment(nodes, type_name, path, d) ==
  LET type_def == find_type_definition(nodes, type_name)
  IN IF type_def # 0
     THEN IF nodes[type_def].tag = "simpleType"
          THEN Ok(process_simple_type(nodes, type_def))
          ELSE call_process_complex_type(nodes, type_def, path, d)
     ELSE Ok(STRING_FRAGMENT)

\* the built-in branch for a prefix in ['xs', 'xsd'] (lines 159-164,
\* 480-485, 586-591)
builtin_fragment(xsd_type) ==
  IF xsd_type.local = "dateTime" THEN DATETIME_FRAGMENT
  ELSE IF Key(xsd_type.prefix, xsd_type.local) \in DOMAIN lexicon
       THEN map_simple_type(xsd_type)
       ELSE STRING_FRAGMENT

\* properties[name] = <fragment> (lines 164-204), or the exception passing
\* through
StoreProperty(properties, name, r) ==
  [err |-> r.err,
   props |-> IF r.err = "none" THEN Put(properties, name, r.v) ELSE properties]

\* process_element, lines 120-204: [err, props]
process_element(nodes, element, properties, element_path, d) ==
  IF d >= RecursionLimit THEN [err |-> "RecursionError", props |-> properties]
  ELSE
  LET name == nodes[element].at.name
      ref == nodes[element].at.ref
      ref_element == IF TruthyQ(ref) /\ ~Truthy(name)
                     THEN find_referenced_element(nodes, ref) ELSE 0
      current_path == JoinPath(element_path, name)
      xsd_type == nodes[element].at.type
      simple_type == First(findall_child(nodes, element, "simpleType"))
      complex_type == First(findall_child(nodes, element, "complexType"))
  IN IF ref_element # 0
     THEN call_process_element(nodes, ref_element, properties, element_path, d + 1)
     ELSE IF ~Truthy(name) THEN [err |-> "none", props |-> properties]
     ELSE StoreProperty(properties, name,
            IF TruthyQ(xsd_type)
            THEN IF HasColon(xsd_type) /\ xsd_type.prefix \in {"xs", "xsd"}
                 THEN Ok(builtin_fragment(xsd_type))
                 ELSE named_type_fragment(nodes, xsd_type.local, current_path, d + 1)
            ELSE IF simple_type # 0 THEN Ok(process_simple_type(nodes, simple_type))
            ELSE IF complex_type # 0
                 THEN call_process_complex_type(nodes, complex_type, current_path, d + 1)
            ELSE Ok(OBJECT_FRAGMENT))

\* the child a sequence/all/choice loop works on after reference handling
\* (lines 452-460, 562-570): [child, child_name]
ResolveChild(nodes, c) ==
  LET child_name == nodes[c].at.name
      child_ref == nodes[c].at.ref
      ref_element == IF TruthyQ(child_ref) /\ ~Truthy(child_name)
                     THEN find_referenced_element(nodes, child_ref) ELSE 0
  IN IF ref_element # 0
     THEN [child |-> ref_element, child_name |-> nodes[ref_element].at.name]
     ELSE [child |-> c, child_name |-> child_name]

\* a fragment that is stored under the child's name
Stored(r) == [err |-> r.err, v |-> r.v, stored |-> TRUE]

\* lines 512-528: the fallback of a sequence/all child with no type at all
FallbackFragment(child_properties, child_name) ==
  IF child_properties.err # "none"
  THEN [err |-> child_properties.err, v |-> STRING_FRAGMENT, stored |-> FALSE]
  ELSE IF child_name \in DOMAIN child_properties.props
       THEN Stored(Ok(child_properties.props[child_name]))
       ELSE [err |-> "none", v |-> STRING_FRAGMENT, stored |-> FALSE]

\* fragment of one sequence/all child, lines 466-528: [err, v, stored]
SequenceChildFragment_NoDefault(nodes, child, child_name, element_path, d) ==
  LET child_path == JoinPath(element_path, child_name)
      child_type == nodes[child].at.type
      simple_type == First(findall_child(nodes, child, "simpleType"))
      complex_child_type == First(findall_child(nodes, child, "complexType"))
  IN IF TruthyQ(child_type)
     THEN IF child_type = QN(NoPrefix, "dateTime") THEN Stored(Ok(DATETIME_FRAGMENT))
          ELSE IF HasColon(child_type) /\ child_type.prefix \in {"xs", "xsd"}
               THEN Stored(Ok(builtin_fragment(child_type)))
               ELSE IF find_type_definition(nodes, child_type.local) # 0
                    THEN Stored(named_type_fragment(nodes, child_type.local, child_path, d))
                    ELSE [err |-> "none", v |-> STRING_FRAGMENT, stored |-> FALSE]
     ELSE IF simple_type # 0 THEN Stored(Ok(process_simple_type(nodes, simple_type)))
     ELSE IF complex_child_type # 0
          THEN Stored(call_process_complex_type(nodes, complex_child_type, child_path, d))
     ELSE FallbackFragment(call_process_element(nodes, child, <<>>, element_path, d),
                           child_name)
SequenceChildFragment(nodes, child, child_name, element_path, d) ==
  LET child_path == JoinPath(element_path, child_name)
      child_type == nodes[child].at.type
      simple_type == First(findall_child(nodes, child, "simpleType"))
      complex_child_type == First(findall_child(nodes, child, "complexType"))
  IN IF TruthyQ(child_type)
     THEN IF child_type = QN(NoPrefix, "dateTime") THEN Stored(Ok(DATETIME_FRAGMENT))
          ELSE IF HasColon(child_type) /\ child_type.prefix \in {"xs", "xsd"}
               THEN Stored(Ok(builtin_fragment(child_type)))
               ELSE Stored(named_type_fragment(nodes, child_type.local, child_path, d))
     ELSE IF simple_type # 0 THEN Stored(Ok(process_simple_type(nodes, simple_type)))
     ELSE IF complex_child_type # 0
          THEN Stored(call_process_complex_type(nodes, complex_child_type, child_path, d))
     ELSE FallbackFragment(call_process_element(nodes, child, <<>>, element_path, d),
                           child_name)

\* `minOccurs` test of line 531
IsRequired(nodes, child) ==
  LET min_occurs == IF nodes[child].at.minOccurs = AbsentV THEN <<"1">>
                    ELSE nodes[child].at.minOccurs
  IN min_occurs # <<"0">>

\* `maxOccurs` test of lines 535-536: [err, array]
IsArray(nodes, child) ==
  LET max_occurs == IF nodes[child].at.maxOccurs = AbsentV THEN <<"1">>
                    ELSE nodes[child].at.maxOccurs
  IN IF max_occurs = <<"u", "n", "b", "o", "u", "n", "d", "e", "d">>
     THEN [err |-> "none", array |-> TRUE]
     ELSE IF isdigit(max_occurs)
          THEN IF int(max_occurs).ok
               THEN [err |-> "none", array |-> int(max_occurs).n > 1]
               ELSE [err |-> "ValueError", array |-> FALSE]
          ELSE [err |-> "none", array |-> FALSE]

\* the array wrapping of lines 538-542
WrapArray(item_schema) == [type |-> "array", items |-> item_schema]

\* lines 466-542 for one named child whose fragment is f: the store, the
\* `required` append and the array wrapping
SequenceStep(nodes, acc, child, child_name, f, arr) ==
  LET props1 == IF f.stored THEN Put(acc.props, child_name, f.v) ELSE acc.props
      required1 == IF IsRequired(nodes, child) THEN Append(acc.required, child_name)
                   ELSE acc.required
  IN IF f.err # "none" THEN [acc EXCEPT !.err = f.err]
     ELSE IF arr.err # "none"
          THEN [props |-> props1, required |-> required1, err |-> arr.err]
     ELSE IF ~arr.array
          THEN [props |-> props1, required |-> required1, err |-> "none"]
     ELSE IF child_name \notin DOMAIN props1
          THEN [props |-> props1, required |-> required1, err |-> "KeyError"]
     ELSE [props |-> Put(props1, child_name, WrapArray(props1[child_name])),
           required |-> required1, err |-> "none"]

\* one pass of the loop of process_sequence_elements, lines 446-542
SequenceChild(nodes, rc, acc, element_path, d) ==
  IF ~Truthy(rc.child_name) THEN acc
  ELSE SequenceStep(nodes, acc, rc.child, rc.child_name,
                    SequenceChildFragment(nodes, rc.child, rc.child_name, element_path, d),
                    IsArray(nodes, rc.child))

\* process_sequence_elements, lines 437-542, from the i-th child on;
\* acc = [props, required, err] are schema['properties'], required and the
\* exception raised so far
RECURSIVE SequenceLoop(_, _, _, _, _, _)
SequenceLoop(nodes, children, i, acc, element_path, d) ==
  IF i > Len(children) \/ acc.err # "none" THEN acc
  ELSE SequenceLoop(nodes, children, i + 1,
                    SequenceChild(nodes, ResolveChild(nodes, children[i]), acc,
                                  element_path, d),
                    element_path, d)

process_sequence_elements(nodes, sequence, acc, element_path, d) ==
  IF d >= RecursionLimit THEN [acc EXCEPT !.err = "RecursionError"]
  ELSE SequenceLoop(nodes, findall_child(nodes, sequence, "element"), 1, acc,
                    element_path, d + 1)

\* fragment of one choice member, lines 576-626: [err, v]
ChoiceChildFragment(nodes, child, child_name, element_path, d) ==
  LET child_path == JoinPath(element_path, child_name)
      child_type == nodes[child].at.type
      simple_type == First(findall_child(nodes, child, "simpleType"))
      complex_child_type == First(findall_child(nodes, child, "complexType"))
  IN IF TruthyQ(child_type)
     THEN IF HasColon(child_type) /\ child_type.prefix \in {"xs", "xsd"}
          THEN Ok(builtin_fragment(child_type))
          ELSE named_type_fragment(nodes, child_type.local, child_path, d)
     ELSE IF simple_type # 0 THEN Ok(process_simple_type(nodes, simple_type))
     ELSE IF complex_child_type # 0
          THEN call_process_complex_type(nodes, complex_child_type, child_path, d)
     ELSE Ok(STRING_FRAGMENT)

\* lines 628-636 for one named member whose fragment is f
ChoiceStep(cacc, child_name, f) ==
  IF f.err # "none" THEN [cacc EXCEPT !.err = f.err]
  ELSE [choice_elements |->
          Append(cacc.choice_elements,
                 [type |-> "object",
                  properties |-> Put(<<>>, child_name, f.v),
                  required |-> <<child_name>>]),
        choice_properties |-> Put(cacc.choice_properties, child_name, f.v),
        err |-> "none"]

\* one pass of the loop of process_choice_elements, lines 561-636
ChoiceChild(nodes, rc, cacc, element_path, d) ==
  IF ~Truthy(rc.child_name) THEN cacc
  ELSE ChoiceStep(cacc, rc.child_name,
                  ChoiceChildFragment(nodes, rc.child, rc.child_name, element_path, d))

\* the loop of process_choice_elements, lines 561-636;
\* cacc = [choice_elements, choice_properties, err]
RECURSIVE ChoiceLoop(_, _, _, _, _, _)
ChoiceLoop(nodes, children, i, cacc, element_path, d) ==
  IF i > Len(children) \/ cacc.err # "none" THEN cacc
  ELSE ChoiceLoop(nodes, children, i + 1,
                  ChoiceChild(nodes, ResolveChild(nodes, children[i]), cacc,
                              element_path, d),
                  element_path, d)

\* lines 638-647: what process_choice_elements does with the members it
\* collected.  schema_oneOf (line 641) is a local that is never stored into
\* `schema`.
ChoiceResult(acc, c) ==
  LET schema_oneOf == [oneOf |-> c.choice_elements]
  IN IF c.err # "none" THEN [acc EXCEPT !.err = c.err]
     ELSE IF Len(c.choice_elements) > 1
          THEN [acc EXCEPT !.props = Update(acc.props, c.choice_properties)]
          ELSE [acc EXCEPT !.props = Update(acc.props, c.choice_properties)]

\* process_choice_elements, lines 545-649
process_choice_elements(nodes, choice, acc, element_path, d) ==
  IF d >= RecursionLimit THEN [acc EXCEPT !.err = "RecursionError"]
  ELSE ChoiceResult(acc,
         ChoiceLoop(nodes, findall_child(nodes, choice, "element"), 1,
                    [choice_elements |-> <<>>, choice_properties |-> <<>>, err |-> "none"],
                    element_path, d + 1))

\* the three group loops of process_complex_type, lines 419-428, one after
\* the other: `groups` lists the sequences, then the alls, then the choices
RECURSIVE GroupsLoop(_, _, _, _, _, _)
GroupsLoop(nodes, groups, i, acc, element_path, d) ==
  IF i > Len(groups) \/ acc.err # "none" THEN acc
  ELSE GroupsLoop(nodes, groups, i + 1,
                  IF nodes[groups[i]].tag = "choice"
                  THEN process_choice_elements(nodes, groups[i], acc, element_path, d)
                  ELSE process_sequence_elements(nodes, groups[i], acc, element_path, d),
                  element_path, d)

\* the property key of an attribute, lines 408-412
AttrKey_AnyPath(attr_name, element_path) ==
  IF attr_name = "testProject" THEN attr_name ELSE "@" \o attr_name
AttrKey(attr_name, element_path) ==
  IF attr_name = "testProject" /\ element_path = "TestResults"
  THEN attr_name
  ELSE "@" \o attr_name

\* `use` test of line 415
AttrRequired_Always(use) == TRUE
AttrRequired(use) == use = "required"

\* the attribute loop of process_complex_type, lines 403-416
RECURSIVE AttrLoop(_, _, _, _, _)
AttrLoop(nodes, attrs, i, acc, element_path) ==
  IF i > Len(attrs) THEN acc
  ELSE
  LET attr_name == nodes[attrs[i]].at.name
      attr_type == nodes[attrs[i]].at.type
      property_name == AttrKey(attr_name, element_path)
  IN IF Truthy(attr_name) /\ TruthyQ(attr_type)
     THEN AttrLoop(nodes, attrs, i + 1,
                   [props |-> Put(acc.props, property_name, map_simple_type(attr_type)),
                    required |-> IF AttrRequired(nodes[attrs[i]].at.use)
                                 THEN Append(acc.required, property_name)
                                 ELSE acc.required,
                    err |-> "none"],
                   element_path)
     ELSE AttrLoop(nodes, attrs, i + 1, acc, element_path)

\* lines 397-401 and 430-434: the schema of a complex type whose properties
\* and required list are in a
ComplexTypeSchema(a) ==
  IF a.err # "none" THEN Raise(a.err)
  ELSE IF a.required # <<>>
       THEN Ok([type |-> "object", properties |-> a.props, required |-> a.required])
       ELSE Ok([type |-> "object", properties |-> a.props])

\* process_complex_type, lines 382-434: [err, v]
process_complex_type_DirectGroups(nodes, complex_type, element_path, d) ==
  IF d >= RecursionLimit THEN Raise("RecursionError")
  ELSE
  ComplexTypeSchema(
    GroupsLoop(nodes,
               findall_child(nodes, complex_type, "sequence")
                 \o findall_child(nodes, complex_type, "all")
                 \o findall_desc(nodes, complex_type, "choice"),
               1,
               AttrLoop(nodes, findall_desc(nodes, complex_type, "attribute"), 1,
                        [props |-> <<>>, required |-> <<>>, err |-> "none"], element_path),
               element_path, d + 1))
process_complex_type(nodes, complex_type, element_path, d) ==
  IF d >= RecursionLimit THEN Raise("RecursionError")
  ELSE
  ComplexTypeSchema(
    GroupsLoop(nodes,
               findall_desc(nodes, complex_type, "sequence")
                 \o findall_desc(nodes, complex_type, "all")
                 \o findall_desc(nodes, complex_type, "choice"),
               1,
               AttrLoop(nodes, findall_desc(nodes, complex_type, "attribute"), 1,
                        [props |-> <<>>, required |-> <<>>, err |-> "none"], element_path),
               element_path, d + 1))

\* the callee of a re-entering call
Invoke(call) ==
  IF call[1] = "process_element"
  THEN process_element(call[2], call[3], call[4], call[5], call[6])
  ELSE process_complex_type(call[2], call[3], call[4], call[5])

(***************************************************************************)
(* Inputs: token text of schema documents                                  *)
(***************************************************************************)
Chars(n) == CASE n = 0 -> <<"0">> [] n = 1 -> <<"1">> [] n = 2 -> <<"2">>
              [] n = 3 -> <<"3">> [] n = 18 -> <<"1", "8">> [] n = 20 -> <<"2", "0">>
              [] n = 120 -> <<"1", "2", "0">>
UNBOUNDED == <<"u", "n", "b", "o", "u", "n", "d", "e", "d">>
Schema(body) == El("schema", AT0, body)
Named(name) == [AT0 EXCEPT !.name = name]
\* <xs:element name= type= minOccurs= maxOccurs=/>
Elem(name, type, minO, maxO) ==
  Empty("element", [AT0 EXCEPT !.name = name, !.type = type, !.minOccurs = minO, !.maxOccurs = maxO])
\* <xs:element ref= minOccurs= maxOccurs=/>
Ref(ref, minO, maxO) ==
  Empty("element", [AT0 EXCEPT !.ref = ref, !.minOccurs = minO, !.maxOccurs = maxO])
\* <xs:element name= minOccurs= maxOccurs=> <xs:complexType> body
ElemCT(name, minO, maxO, body) ==
  El("element", [AT0 EXCEPT !.name = name, !.minOccurs = minO, !.maxOccurs = maxO],
     El("complexType", AT0, body))
Attr(name, type, use) ==
  Empty("attribute", [AT0 EXCEPT !.name = name, !.type = type, !.use = use])
Facet(tag, value) == Empty(tag, [AT0 EXCEPT !.value = value])
Restriction(base, facets) == El("restriction", [AT0 EXCEPT !.base = base], facets)
XS(l) == QN("xs", l)

\* the person schema of simple.xsd and its variations
PersonDoc(top, an, use, group, minAge, maxFirst) ==
  Schema(ElemCT(top, AbsentV, AbsentV,
                El(group, AT0, Elem("firstName", XS("string"), AbsentV, maxFirst)
                               \o Elem("age", XS("integer"), minAge, AbsentV))
                \o Attr(an, XS("string"), use)))
PersonDocs ==
  { PersonDoc(top, an, use, group, minAge, maxFirst) :
      top \in {"person", "TestResults"}, an \in {"id", "testProject"},
      use \in {Absent, "required", "optional"}, group \in {"sequence", "all"},
      minAge \in {AbsentV, Chars(0), Chars(1)},
      maxFirst \in {AbsentV, Chars(0), Chars(1), Chars(2), UNBOUNDED, <<SUPERSCRIPT_TWO>>} }
PersonDocC4 == PersonDoc("person", "id", "required", "sequence", Chars(0), AbsentV)

\* array_test.xsd: a repeated child with an inline complex type; the outer
\* and the inner type both have an attribute `id`
LibraryDoc(outerUse, innerUse, maxBook) ==
  Schema(ElemCT("library", AbsentV, AbsentV,
                El("sequence", AT0,
                   ElemCT("book", AbsentV, maxBook,
                          El("sequence", AT0, Elem("title", XS("string"), AbsentV, AbsentV))
                          \o Attr("id", XS("string"), innerUse)))
                \o Attr("id", XS("string"), outerUse)
                \o Empty("attribute", [AT0 EXCEPT !.name = "untyped"])))
LibraryDocs ==
  { LibraryDoc(o, i, m) : o \in {Absent, "required"}, i \in {Absent, "required"},
                          m \in {AbsentV, UNBOUNDED, Chars(3)} }

\* namespace_test.xsd: children given by reference to a global declaration
RefDoc(ref, minO, maxO) ==
  Schema(Elem("item", XS("string"), AbsentV, AbsentV)
         \o ElemCT("order", AbsentV, AbsentV,
                   El("sequence", AT0, Ref(ref, minO, maxO)
                                       \o Elem("note", XS("string"), Chars(0), AbsentV))))
RefDocs ==
  { RefDoc(ref, minO, maxO) :
      ref \in {QN(NoPrefix, "item"), QN("tns", "item"), QN(NoPrefix, "missing")},
      minO \in {AbsentV, Chars(0)}, maxO \in {AbsentV, UNBOUNDED} }

\* types.xsd: one declaration of every type name in every context
NamedTypes ==
  El("simpleType", Named("Code"),
     Restriction("xs:string", Facet("enumeration", <<"A">>) \o Facet("enumeration", <<"B">>)))
  \o El("complexType", Named("Address"),
        El("sequence", AT0, Elem("street", XS("string"), AbsentV, AbsentV)))
LexiconLocals ==
  {"string", "integer", "int", "long", "short", "decimal", "float", "double", "boolean",
   "date", "time", "dateTime", "duration", "anyURI", "base64Binary", "hexBinary",
   "ID", "IDREF", "NMTOKEN", "token"}
TypeNames ==
  { QN(p, l) : p \in {"xs", "xsd"}, l \in LexiconLocals }
  \cup { QN(NoPrefix, "dateTime"), QN("tns", "Code"), QN(NoPrefix, "Code"),
         QN("tns", "Address"), QN(NoPrefix, "Missing"), XS("unknown") }
Contexts == {"top", "sequence", "all", "choice", "attribute"}
TypeDoc(t, ctx) ==
  Schema((CASE ctx = "top" -> Elem("e", t, AbsentV, AbsentV)
            [] ctx = "attribute" -> ElemCT("holder", AbsentV, AbsentV, Attr("e", t, Absent))
            [] OTHER -> ElemCT("holder", AbsentV, AbsentV,
                               El(ctx, AT0, Elem("e", t, AbsentV, AbsentV))))
         \o NamedTypes)
TypeDocs == { TypeDoc(t, ctx) : t \in TypeNames, ctx \in Contexts }

\* choice_test.xsd: a choice group with 0..4 members
ChoiceMembers ==
  << Elem("check", XS("string"), AbsentV, AbsentV),
     ElemCT("creditCard", AbsentV, AbsentV,
            El("sequence", AT0, Elem("number", XS("string"), AbsentV, AbsentV))),
     Ref(QN(NoPrefix, "item"), AbsentV, AbsentV),
     Elem("cash", AbsentQ, AbsentV, AbsentV) >>
RECURSIVE Flatten(_)
Flatten(ss) == IF ss = <<>> THEN <<>> ELSE ss[1] \o Flatten(Tail(ss))
ChoiceDoc(from, to) ==
  Schema(Elem("item", XS("integer"), AbsentV, AbsentV)
         \o ElemCT("payment", AbsentV, AbsentV,
                   El("sequence", AT0, Elem("amount", XS("decimal"), AbsentV, AbsentV))
                   \o El("choice", AT0, Flatten(SubSeq(ChoiceMembers, from, to)))))
ChoiceDocs == { ChoiceDoc(from, to) : from \in 1..4, to \in 0..4 }

\* restrictions.xsd: an element with an inline restricted simple type
FacetLists ==
  { <<>>,
    Facet("minInclusive", Chars(18)) \o Facet("maxInclusive", Chars(120)),
    Facet("minLength", Chars(3)) \o Facet("maxLength", Chars(20))
      \o Facet("pattern", <<"a", "+">>),
    Facet("minExclusive", Chars(0)) \o Facet("maxExclusive", <<"1", ".", "5">>),
    Facet("pattern", <<>>) \o Facet("minInclusive", <<"-", "1">>),
    Facet("pattern", <<"a">>) \o Facet("pattern", <<"b">>),
    Facet("minInclusive", <<"a">>) \o Facet("minLength", <<"1", ".", "5">>)
      \o Facet("maxInclusive", <<" ", "2", "0">>),
    El("simpleType", AT0, Restriction("xs:string", Facet("minLength", Chars(3))))
      \o Facet("maxLength", Chars(20)),
    Facet("enumeration", <<"2">>) \o Facet("enumeration", AbsentV)
      \o Facet("enumeration", <<"1">>) \o Facet("enumeration", <<>>),
    Facet("enumeration", AbsentV) }
Bases ==
  {"xs:integer", "xs:int", "xs:long", "xs:short", "xs:decimal", "xs:float", "xs:double",
   "xs:boolean", "xs:string", "xs:dateTime", "xsd:integer", Absent}
SimpleDoc(base, facets) ==
  Schema(El("element", Named("age"), El("simpleType", AT0, Restriction(base, facets))))
SimpleDocs == { SimpleDoc(b, f) : b \in Bases, f \in FacetLists }

\* type graphs with cycles: a type that contains an element of its own type,
\* two types that contain each other, an element that refers to itself
RecursiveDocs ==
  { Schema(Elem("tree", QN(NoPrefix, "Node"), AbsentV, AbsentV)
           \o El("complexType", Named("Node"),
                 El("sequence", AT0, Elem("child", QN(NoPrefix, "Node"), Chars(0), UNBOUNDED)))),
    Schema(Elem("a", QN("tns", "A"), AbsentV, AbsentV)
           \o El("complexType", Named("A"),
                 El("choice", AT0, Elem("b", QN("tns", "B"), AbsentV, AbsentV)))
           \o El("complexType", Named("B"),
                 El("all", AT0, Elem("a", QN("tns", "A"), Chars(0), AbsentV)))),
    Schema(ElemCT("folder", AbsentV, AbsentV,
                  El("sequence", AT0, Ref(QN(NoPrefix, "folder"), Chars(0), UNBOUNDED)))) }

\* names that resolve to nothing: a reference to an element and a type that
\* the document does not declare, at the top level and inside a group
UnresolvedDoc(group) ==
  Schema(Ref(QN(NoPrefix, "missing"), AbsentV, AbsentV)
         \o Elem("loose", QN(NoPrefix, "Missing"), AbsentV, AbsentV)
         \o ElemCT("holder", AbsentV, AbsentV,
                   El(group, AT0,
                      Ref(QN("tns", "missing"), AbsentV, UNBOUNDED)
                      \o Elem("u", QN("tns", "Missing"), AbsentV, AbsentV)
                      \o Elem("v", XS("unknown"), AbsentV, AbsentV)
                      \o Elem("ok", XS("integer"), AbsentV, AbsentV))))
UnresolvedDocs == { UnresolvedDoc(g) : g \in {"sequence", "all", "choice"} }

\* one name declared more than once: `id` nested in a type and at the top
\* level, `Code` as an element and as a simple type
DuplicateDoc(nestedFirst, facets) ==
  LET nested == ElemCT("holder", AbsentV, AbsentV,
                       El("sequence", AT0, Elem("id", XS("integer"), AbsentV, AbsentV)))
      top == Elem("id", XS("string"), AbsentV, AbsentV)
  IN Schema((IF nestedFirst THEN nested \o top ELSE top \o nested)
            \o Elem("Code", XS("boolean"), AbsentV, AbsentV)
            \o El("simpleType", Named("Code"), Restriction("xs:integer", facets))
            \o El("simpleType", Named("Unused"), Restriction("xs:string", facets)))
DuplicateDocs ==
  { DuplicateDoc(n, f) :
      n \in BOOLEAN,
      f \in { <<>>, Facet("enumeration", <<"7">>) \o Facet("enumeration", <<"3">>) } }

\* a TestResults element below another element, and one given by a named type
NestedResultsDoc(an, use) ==
  Schema(ElemCT("suite", AbsentV, AbsentV,
                El("sequence", AT0,
                   ElemCT("TestResults", AbsentV, AbsentV, Attr(an, XS("string"), use))))
         \o Elem("run", QN("tns", "Results"), AbsentV, AbsentV)
         \o El("complexType", Named("Results"), Attr(an, XS("string"), use)))
NestedResultsDocs ==
  { NestedResultsDoc(an, use) : an \in {"id", "testProject"}, use \in {Absent, "required"} }

\* children with no type information at all, one of them carrying both a
\* name and a ref, alone or repeated
BareChildDoc(group, maxO) ==
  Schema(Elem("item", XS("integer"), AbsentV, AbsentV)
         \o ElemCT("holder", AbsentV, AbsentV,
                   El(group, AT0,
                      Elem("bare", AbsentQ, AbsentV, maxO)
                      \o Empty("element", [AT0 EXCEPT !.name = "both",
                                                      !.ref = QN(NoPrefix, "item"),
                                                      !.maxOccurs = maxO])
                      \o Elem("gone", QN("tns", "Missing"), Chars(0), maxO))))
BareChildDocs ==
  { BareChildDoc(g, m) : g \in {"sequence", "all"}, m \in {AbsentV, Chars(2), UNBOUNDED} }

\* a document whose root is itself an element declaration
RootElementDoc ==
  ElemCT("outer", AbsentV, AbsentV,
         El("sequence", AT0, Elem("inner", XS("string"), AbsentV, AbsentV)))

SchemaDocs ==
  {RootElementDoc} \cup PersonDocs \cup LibraryDocs \cup RefDocs \cup TypeDocs \cup ChoiceDocs \cup SimpleDocs
  \cup RecursiveDocs \cup UnresolvedDocs \cup DuplicateDocs \cup NestedResultsDocs
  \cup BareChildDocs

\* short raw inputs: white space, letters, stray tags and bytes
SeqsUpTo(A, n) == UNION { [1..k -> A] : k \in 0..n }
RawTextUnits == {SP, NL, NBSP, LETTER, Open("a", AT0), Close("a"), Close("b")}
RawByteUnits == (RawTextUnits \ {NBSP}) \cup {Byte(194), Byte(160), Byte(255)}

Inputs ==
  { [isBytes |-> TRUE, data |-> d] : d \in SchemaDocs \cup SeqsUpTo(RawByteUnits, MaxRaw) }
  \cup { [isBytes |-> FALSE, data |-> d] : d \in SeqsUpTo(RawTextUnits, MaxRaw) }

(***************************************************************************)
(* xsd_to_json_schema, lines 35-85, as a state machine                     *)
(***************************************************************************)
NoResult == [kind |-> "none"]
RaiseResult(e) == [kind |-> e]
EmptySchema == <<>>

Init ==
  /\ pc = "idle"
  /\ xsd_content = [isBytes |-> FALSE, data |-> <<>>]
  /\ text = <<>>
  /\ root = <<>>
  /\ todo = <<>>
  /\ json_schema = EmptySchema
  /\ result = NoResult
  /\ lexicon = XSD_TO_JSON_TYPE_MAPPING
  /\ calls = 0

\* a caller invokes xsd_to_json_schema(inp)
Call(inp) ==
  /\ pc = "idle"
  /\ calls < MaxCalls
  /\ pc' = "decode"
  /\ xsd_content' = inp
  /\ text' = <<>>
  /\ root' = <<>>
  /\ todo' = <<>>
  /\ json_schema' = EmptySchema
  /\ result' = NoResult
  /\ calls' = calls + 1
  /\ UNCHANGED lexicon

\* lines 50-51
Decode ==
  /\ pc = "decode"
  /\ IF xsd_content.isBytes
     THEN LET r == decode(xsd_content.data)
          IN IF r.ok
             THEN /\ text' = r.text
                  /\ pc' = "check"
                  /\ UNCHANGED result
             ELSE /\ result' = RaiseResult("UnicodeDecodeError")
                  /\ pc' = "done"
                  /\ UNCHANGED text
     ELSE /\ text' = xsd_content.data
          /\ pc' = "check"
          /\ UNCHANGED result
  /\ UNCHANGED <<xsd_content, root, todo, json_schema, lexicon, calls>>

\* lines 53-54
CheckEmpty ==
  /\ pc = "check"
  /\ IF IsBlank(text)
     THEN /\ result' = RaiseResult("ValueError")
          /\ pc' = "done"
     ELSE /\ pc' = "parse"
          /\ UNCHANGED result
  /\ UNCHANGED <<xsd_content, text, root, todo, json_schema, lexicon, calls>>

\* lines 56-71: parse, build the empty document, start the element loop
Parse_DirectChildren ==
  /\ pc = "parse"
  /\ LET r == fromstring(text)
     IN IF r.ok
        THEN /\ root' = r.nodes
             /\ json_schema' = [k \in {"$schema", "type", "properties"} |->
                                  CASE k = "$schema" -> JSON_SCHEMA_DRAFT
                                    [] k = "type" -> "object"
                                    [] OTHER -> <<>>]
             /\ todo' = findall_child(r.nodes, 1, "element")
             /\ pc' = "elements"
             /\ UNCHANGED result
        ELSE /\ result' = RaiseResult("ParseError")
             /\ pc' = "done"
             /\ UNCHANGED <<root, json_schema, todo>>
  /\ UNCHANGED <<xsd_content, text, lexicon, calls>>
Parse ==
  /\ pc = "parse"
  /\ LET r == fromstring(text)
     IN IF r.ok
        THEN /\ root' = r.nodes
             /\ json_schema' = [k \in {"$schema", "type", "properties"} |->
                                  CASE k = "$schema" -> JSON_SCHEMA_DRAFT
                                    [] k = "type" -> "object"
                                    [] OTHER -> <<>>]
             /\ todo' = findall_desc(r.nodes, 1, "element")
             /\ pc' = "elements"
             /\ UNCHANGED result
        ELSE /\ result' = RaiseResult("ParseError")
             /\ pc' = "done"
             /\ UNCHANGED <<root, json_schema, todo>>
  /\ UNCHANGED <<xsd_content, text, lexicon, calls>>

\* one iteration of the loop of lines 71-72
ProcessNextElement ==
  /\ pc = "elements"
  /\ todo # <<>>
  /\ LET r == process_element(root, Head(todo), json_schema["properties"], "", 1)
     IN IF r.err = "none"
        THEN /\ json_schema' = Put(json_schema, "properties", r.props)
             /\ todo' = Tail(todo)
             /\ UNCHANGED <<pc, result>>
        ELSE /\ result' = RaiseResult(r.err)
             /\ pc' = "done"
             /\ UNCHANGED <<json_schema, todo>>
  /\ UNCHANGED <<xsd_content, text, root, lexicon, calls>>

\* the element loop is exhausted; line 75 starts the simpleType loop
StartSimpleTypes ==
  /\ pc = "elements"
  /\ todo = <<>>
  /\ todo' = findall_desc(root, 1, "simpleType")
  /\ pc' = "simpleTypes"
  /\ UNCHANGED <<xsd_content, text, root, json_schema, result, lexicon, calls>>

\* one iteration of the loop of lines 75-83
ProcessNextSimpleType_RegistersType ==
  /\ pc = "simpleTypes"
  /\ todo # <<>>
  /\ LET name == root[Head(todo)].at.name
         enum_values == extract_enum_values(root, Head(todo))
     IN IF Truthy(name) /\ enum_values # <<>>
        THEN /\ json_schema' = Put(json_schema, "properties",
                                   Put(json_schema["properties"], name,
                                       [type |-> "string", enum |-> enum_values]))
             /\ lexicon' = Put(lexicon, name, [type |-> "string", enum |-> enum_values])
        ELSE UNCHANGED <<json_schema, lexicon>>
  /\ todo' = Tail(todo)
  /\ UNCHANGED <<pc, xsd_content, text, root, result, calls>>
ProcessNextSimpleType ==
  /\ pc = "simpleTypes"
  /\ todo # <<>>
  /\ LET name == root[Head(todo)].at.name
         enum_values == extract_enum_values(root, Head(todo))
     IN IF Truthy(name) /\ enum_values # <<>>
        THEN json_schema' = Put(json_schema, "properties",
                                Put(json_schema["properties"], name,
                                    [type |-> "string", enum |-> enum_values]))
        ELSE UNCHANGED json_schema
  /\ todo' = Tail(todo)
  /\ UNCHANGED <<pc, xsd_content, text, root, result, lexicon, calls>>

\* line 85
Return ==
  /\ pc = "simpleTypes"
  /\ todo = <<>>
  /\ result' = [kind |-> "doc", doc |-> json_schema]
  /\ pc' = "done"
  /\ UNCHANGED <<xsd_content, text, root, todo, json_schema, lexicon, calls>>

\* the caller has the document or the exception; the locals of the call are
\* gone, only the module-level mapping remains
Finish ==
  /\ pc = "done"
  /\ pc' = "idle"
  /\ xsd_content' = [isBytes |-> FALSE, data |-> <<>>]
  /\ text' = <<>>
  /\ root' = <<>>
  /\ todo' = <<>>
  /\ json_schema' = EmptySchema
  /\ result' = NoResult
  /\ UNCHANGED <<lexicon, calls>>

Next ==
  \/ \E inp \in Inputs : Call(inp)
  \/ Decode
  \/ CheckEmpty
  \/ Parse
  \/ ProcessNextElement
  \/ StartSimpleTypes
  \/ ProcessNextSimpleType
  \/ Return
  \/ Finish

Spec == Init /\ [][Next]_vars

TypeOK ==
  /\ pc \in {"idle", "decode", "check", "parse", "elements", "simpleTypes", "done"}
  /\ calls \in 0..MaxCalls
  /\ result.kind \in {"none", "doc", "ValueError", "UnicodeDecodeError", "ParseError",
                      "RecursionError", "KeyError"}

(***************************************************************************)
(* Vocabulary of the properties                                            *)
(***************************************************************************)
\* the text of the current input, when it has one
InputText ==
  IF xsd_content.isBytes THEN decode(xsd_content.data)
  ELSE [ok |-> TRUE, text |-> xsd_content.data]
OnlyWhitespace(s) == \A i \in 1..Len(s) : IsSpace(s[i])
InputIsBlank == InputText.ok /\ OnlyWhitespace(InputText.text)
InputIsWellFormed == InputText.ok /\ fromstring(InputText.text).ok
Returned == pc = "done" /\ result.kind = "doc"
TopProperties == result.doc["properties"]

\* the complex type process_element hands to process_complex_type for the
\* element e (0 when it does not), and the calls the top-level loop makes
RECURSIVE NearestComplexType(_, _)
NearestComplexType(nodes, n) ==
  LET p == nodes[n].parent
  IN IF p = 0 THEN 0
     ELSE IF nodes[p].tag = "complexType" THEN p
     ELSE NearestComplexType(nodes, p)
ComplexTypeOf(nodes, e) ==
  LET t == nodes[e].at.type
      def == find_type_definition(nodes, t.local)
  IN IF TruthyQ(t)
     THEN IF (~HasColon(t) \/ t.prefix \notin {"xs", "xsd"}) /\ def # 0
             /\ nodes[def].tag = "complexType"
          THEN def ELSE 0
     ELSE IF findall_child(nodes, e, "simpleType") # <<>> THEN 0
     ELSE First(findall_child(nodes, e, "complexType"))
ProcessedTypes ==
  { [ct |-> ComplexTypeOf(root, e), path |-> root[e].at.name] :
      e \in { x \in 1..Len(root) : /\ root[x].tag = "element"
                                  /\ x # 1
                                  /\ Truthy(root[x].at.name)
                                  /\ ComplexTypeOf(root, x) # 0 } }
FragmentOf(p) == process_complex_type(root, p.ct, p.path, 2)
\* the element children of the sequence and all groups that belong to ct
GroupChildren(ct) ==
  { c \in 1..Len(root) :
      /\ root[c].tag = "element"
      /\ root[c].parent # 0
      /\ root[root[c].parent].tag \in {"sequence", "all"}
      /\ NearestComplexType(root, c) = ct }
RequiredOf(frag) == IF "required" \in DOMAIN frag THEN frag["required"] ELSE <<>>

(***************************************************************************)
(* C1.  Every input whose text is non-blank, well-formed XML makes         *)
(* xsd_to_json_schema return a document with the draft-07 `$schema`, type  *)
(* "object" and a `properties` mapping, however its types and elements     *)
(* refer to each other.                                                    *)
(***************************************************************************)
C1_WellFormedReturnsDocument ==
  (pc = "done" /\ InputIsWellFormed /\ ~InputIsBlank) =>
     /\ result.kind = "doc"
     /\ DOMAIN result.doc = {"$schema", "type", "properties"}
     /\ result.doc["$schema"] = "http://json-schema.org/draft-07/schema#"
     /\ result.doc["type"] = "object"

(***************************************************************************)
(* C2.  An input that is empty or only white space raises ValueError, and  *)
(* the call never reaches the XML parse: it yields neither ParseError nor  *)
(* a document.                                                             *)
(***************************************************************************)
C2_BlankRaisesValueError ==
  (pc # "idle" /\ InputIsBlank) =>
     /\ pc \in {"decode", "check", "done"}
     /\ root = <<>>
     /\ pc = "done" => result.kind = "ValueError"

C2_Witness ==
  /\ pc = "done"
  /\ xsd_content.isBytes
  /\ Len(xsd_content.data) >= 2
  /\ InputIsBlank
  /\ result.kind = "ValueError"

(***************************************************************************)
(* C3.  A non-blank input that is not well-formed XML raises ParseError,   *)
(* an error kind distinct from the ValueError of empty input.              *)
(***************************************************************************)
C3_MalformedRaisesParseError ==
  (pc = "done" /\ ~InputIsBlank /\ ~InputIsWellFormed) => result.kind = "ParseError"

(***************************************************************************)
(* C4.  For the person schema (attribute id required, children firstName   *)
(* and age with minOccurs="0") the returned document is exactly the        *)
(* document whose top-level `properties` has the single key `person`.      *)
(***************************************************************************)
PersonFragment ==
  [type |-> "object",
   properties |-> Put(Put(Put(<<>>, "@id", [type |-> "string"]),
                          "firstName", [type |-> "string"]),
                      "age", [type |-> "integer"]),
   required |-> <<"@id", "firstName">>]
C4_PersonDocumentExact ==
  (pc = "done" /\ xsd_content.data = PersonDocC4) =>
     /\ result.kind = "doc"
     /\ DOMAIN result.doc = {"$schema", "type", "properties"}
     /\ result.doc["$schema"] = "http://json-schema.org/draft-07/schema#"
     /\ result.doc["type"] = "object"
     /\ DOMAIN result.doc["properties"] = {"person"}
     /\ result.doc["properties"]["person"] = PersonFragment

(***************************************************************************)
(* C5.  For every element child of a sequence or all group, given by name  *)
(* or by a resolved ref, the child's property name is in the `required`    *)
(* list of the enclosing object exactly when the child's minOccurs is      *)
(* absent or is not "0".                                                   *)
(***************************************************************************)
C5_RequiredIffMinOccurs ==
  Returned =>
    \A p \in ProcessedTypes :
      \A c \in GroupChildren(p.ct) :
        LET n == ResolveChild(root, c).child_name
        IN Truthy(n) =>
             (InList(n, RequiredOf(FragmentOf(p).v)) <=> root[c].at.minOccurs # <<"0">>)

(***************************************************************************)
(* C6.  For every element child of a sequence or all group, the property   *)
(* stored in the enclosing object is {type: array, items: F} when the      *)
(* child's maxOccurs is "unbounded" or an integer above 1, and F itself    *)
(* when maxOccurs is absent, "0" or "1", F being the child's own finished  *)
(* fragment.                                                               *)
(***************************************************************************)
C6_ArrayIffMaxOccurs ==
  Returned =>
    \A p \in ProcessedTypes :
      \A c \in GroupChildren(p.ct) :
        LET rc == ResolveChild(root, c)
            n == rc.child_name
            F == SequenceChildFragment(root, rc.child, n, p.path, 4).v
            stored == FragmentOf(p).v.properties[n]
            m == root[c].at.maxOccurs
        IN Truthy(n) =>
             /\ (m = UNBOUNDED \/ (AllAsciiDigits(m) /\ DigitsValue(m) > 1))
                  => stored = [type |-> "array", items |-> F]
             /\ m \in {AbsentV, <<"0">>, <<"1">>} => stored = F

(***************************************************************************)
(* C7 as written.  For every complex type and every attribute of it with   *)
(* both name and type, the fragment has a property keyed `@<name>`, and    *)
(* that key is in `required` exactly when the attribute has                *)
(* use="required".                                                         *)
(***************************************************************************)
\* the attributes process_complex_type turns into properties
TypedAttributes(ct) ==
  { a \in 1..Len(root) : /\ root[a].tag = "attribute"
                         /\ IsAncestor(root, ct, a)
                         /\ Truthy(root[a].at.name)
                         /\ TruthyQ(root[a].at.type) }
C7_AttributeKeyAlwaysMarked ==
  Returned =>
    \A p \in ProcessedTypes :
      \A a \in TypedAttributes(p.ct) :
        LET key == "@" \o root[a].at.name
            frag == FragmentOf(p).v
        IN /\ key \in DOMAIN frag.properties
           /\ InList(key, RequiredOf(frag)) <=> root[a].at.use = "required"

(***************************************************************************)
(* C7 as amended.  For every complex type and every attribute among its    *)
(* descendants with both name and type, the fragment has a property under  *)
(* the attribute's key: `@<name>`, or the bare name when the attribute is  *)
(* `testProject` and the element path is exactly `TestResults`.  When no   *)
(* element child of the type is named like the key, the key is in          *)
(* `required` exactly when one of the type's attributes with that key has  *)
(* use="required".                                                         *)
(***************************************************************************)
ExpectedAttrKey(a, path) ==
  IF root[a].at.name = "testProject" /\ path = "TestResults"
  THEN "testProject"
  ELSE "@" \o root[a].at.name
ChildNames(ct) ==
  { ResolveChild(root, c).child_name :
      c \in { x \in 1..Len(root) : /\ root[x].tag = "element"
                                  /\ IsAncestor(root, ct, x)
                                  /\ root[root[x].parent].tag \in {"sequence", "all"} } }
C7_AttributeKeyAndRequired ==
  Returned =>
    \A p \in ProcessedTypes :
      \A a \in TypedAttributes(p.ct) :
        LET key == ExpectedAttrKey(a, p.path)
            frag == FragmentOf(p).v
        IN /\ key \in DOMAIN frag.properties
           /\ key \notin ChildNames(p.ct) =>
                (InList(key, RequiredOf(frag)) <=>
                   \E b \in TypedAttributes(p.ct) :
                      /\ ExpectedAttrKey(b, p.path) = key
                      /\ root[b].at.use = "required")

\* the document of a TestResults element whose required attribute
\* testProject is listed under the bare key, next to a marked one elsewhere
C7_Witness ==
  /\ Returned
  /\ "TestResults" \in DOMAIN TopProperties
  /\ "testProject" \in DOMAIN TopProperties["TestResults"].properties
  /\ "@testProject" \notin DOMAIN TopProperties["TestResults"].properties
  /\ InList("testProject", RequiredOf(TopProperties["TestResults"]))
  /\ \E p \in ProcessedTypes : \E a \in TypedAttributes(p.ct) :
        p.path = "TestResults" /\ root[a].at.use = "required"

(***************************************************************************)
(* C8.  A complex type with a choice group of two or more resolved members *)
(* gets a `oneOf` array with one alternative {type: object, properties:    *)
(* {member: fragment}, required: [member]} per member, and every member is *)
(* also a plain property; with fewer members there is no `oneOf`.          *)
(***************************************************************************)
ChoiceMembersOf(g) ==
  SelectSeq(findall_child(root, g, "element"),
            LAMBDA c : Truthy(ResolveChild(root, c).child_name))
C8_ChoiceEmitsOneOf ==
  Returned =>
    \A p \in ProcessedTypes :
      \A g \in { x \in 1..Len(root) : root[x].tag = "choice"
                                     /\ NearestComplexType(root, x) = p.ct } :
        LET frag == FragmentOf(p).v
            members == ChoiceMembersOf(g)
            nameOf(i) == ResolveChild(root, members[i]).child_name
        IN /\ \A i \in 1..Len(members) : nameOf(i) \in DOMAIN frag.properties
           /\ IF Len(members) >= 2
              THEN /\ "oneOf" \in DOMAIN frag
                   /\ Len(frag["oneOf"]) = Len(members)
                   /\ \A i \in 1..Len(members) :
                        frag["oneOf"][i] =
                          [type |-> "object",
                           properties |-> Put(<<>>, nameOf(i), frag.properties[nameOf(i)]),
                           required |-> <<nameOf(i)>>]
              ELSE "oneOf" \notin DOMAIN frag

(***************************************************************************)
(* C9.  A declaration typed `p:L`, for a primitive L of the Type Lexicon   *)
(* and p in {xs, xsd}, is mapped to the lexicon fragment of L in every     *)
(* context: top-level element, sequence/all child, choice member and       *)
(* attribute.                                                              *)
(***************************************************************************)
C9_BuiltinSameInEveryContext ==
  Returned =>
    \A t \in { QN(pre, l) : pre \in {"xs", "xsd"}, l \in LexiconLocals } :
      \A ctx \in Contexts :
        xsd_content.data = TypeDoc(t, ctx) =>
          LET expected == XSD_TO_JSON_TYPE_MAPPING["xs:" \o t.local]
          IN CASE ctx = "top" -> TopProperties["e"] = expected
               [] ctx = "attribute" -> TopProperties["holder"].properties["@e"] = expected
               [] OTHER -> TopProperties["holder"].properties["e"] = expected

(***************************************************************************)
(* C10 as written.  For every simpleType whose restriction has an integer, *)
(* number or boolean base, process_simple_type returns that type, and each *)
(* facet that is a direct child of the restriction is mapped to its        *)
(* keyword (pattern verbatim, integer-valued facets as integers).          *)
(***************************************************************************)
FacetKeys ==
  [minLength |-> "minLength", maxLength |-> "maxLength", pattern |-> "pattern",
   minInclusive |-> "minimum", maxInclusive |-> "maximum",
   minExclusive |-> "exclusiveMinimum", maxExclusive |-> "exclusiveMaximum"]
BaseType(base) ==
  CASE base \in {"xs:integer", "xs:int", "xs:long", "xs:short"} -> "integer"
    [] base \in {"xs:decimal", "xs:float", "xs:double"} -> "number"
    [] base = "xs:boolean" -> "boolean"
    [] OTHER -> "other"
\* the simple types the claim is about, with their restriction
RestrictedSimpleTypes ==
  { st \in 1..Len(root) :
      /\ root[st].tag = "simpleType"
      /\ findall_desc(root, st, "restriction") # <<>>
      /\ BaseType(root[First(findall_desc(root, st, "restriction"))].at.base) # "other" }
FacetMapped(frag, f) ==
  LET key == FacetKeys[root[f].tag]
      v == root[f].at.value
  IN /\ key \in DOMAIN frag
     /\ root[f].tag = "pattern" => frag[key] = v
     /\ (root[f].tag # "pattern" /\ int(v).ok) => frag[key] = int(v).n
C10_EveryFacetMapped ==
  Returned =>
    \A st \in RestrictedSimpleTypes :
      LET r == First(findall_desc(root, st, "restriction"))
          frag == process_simple_type(root, st)
      IN /\ frag.type = BaseType(root[r].at.base)
         /\ \A f \in { x \in 1..Len(root) : root[x].parent = r
                                           /\ root[x].tag \in DOMAIN FacetKeys } :
              FacetMapped(frag, f)

(***************************************************************************)
(* C10 as amended.  For every simpleType whose first restriction (in       *)
(* document order) has an integer, number or boolean base,                 *)
(* process_simple_type returns that type, and for each facet kind the      *)
(* first direct child of that kind is mapped to its keyword when its value *)
(* is not empty and, for the length and bound facets, is a number (an      *)
(* integer for minLength/maxLength): pattern verbatim, integer-valued      *)
(* facets as integers.  A kind without such a child gets no keyword.       *)
(***************************************************************************)
FacetUsable(f) ==
  LET v == root[f].at.value
  IN /\ TruthyV(v)
     /\ root[f].tag \in {"minLength", "maxLength"} => int(v).ok
     /\ root[f].tag \notin {"minLength", "maxLength", "pattern"} => (int(v).ok \/ float(v).ok)
C10_FirstFacetOfEachKindMapped ==
  Returned =>
    \A st \in RestrictedSimpleTypes :
      LET r == First(findall_desc(root, st, "restriction"))
          frag == process_simple_type(root, st)
      IN /\ frag.type = BaseType(root[r].at.base)
         /\ \A kind \in DOMAIN FacetKeys :
              LET f == First(findall_child(root, r, kind))
              IN IF f # 0 /\ FacetUsable(f)
                 THEN FacetMapped(frag, f)
                 ELSE FacetKeys[kind] \notin DOMAIN frag

\* the restriction of xs:integer to 18..120 has been converted
C10_Witness ==
  /\ Returned
  /\ "age" \in DOMAIN TopProperties
  /\ TopProperties["age"] = [type |-> "integer", minimum |-> 18, maximum |-> 120]
  /\ \E st \in RestrictedSimpleTypes :
       LET r == First(findall_desc(root, st, "restriction"))
       IN /\ root[r].at.base = "xs:integer"
          /\ \E f \in 1..Len(root) : /\ root[f].parent = r
                                     /\ root[f].tag = "minInclusive"
                                     /\ root[f].at.value = <<"1", "8">>

\* the members of a set of node indices in document order
InDocumentOrder(S) ==
  [k \in 1..Cardinality(S) |-> CHOOSE x \in S : Cardinality({y \in S : y < x}) = k - 1]
\* the `value` attributes of the enumeration descendants of st, in document
\* order
EnumValuesOf(st) ==
  LET enums == InDocumentOrder({ i \in 1..Len(root) : /\ root[i].tag = "enumeration"
                                                      /\ IsAncestor(root, st, i)
                                                      /\ root[i].at.value # AbsentV })
  IN [k \in 1..Len(enums) |-> root[enums[k]].at.value]
SimpleTypes == { st \in 1..Len(root) : root[st].tag = "simpleType" }

(***************************************************************************)
(* C11.  For every simpleType with at least one enumeration descendant     *)
(* that has a `value`, process_simple_type returns type "string" and an    *)
(* `enum` that is exactly those values in document order; a simpleType     *)
(* without such a descendant gets no `enum`.                               *)
(***************************************************************************)
C11_EnumIsStringWithExactValues ==
  Returned =>
    \A st \in SimpleTypes :
      LET frag == process_simple_type(root, st)
      IN IF EnumValuesOf(st) # <<>>
         THEN /\ frag.type = "string"
              /\ "enum" \in DOMAIN frag
              /\ frag["enum"] = EnumValuesOf(st)
         ELSE "enum" \notin DOMAIN frag

\* the named elements the Assembler visits, and those that sit in a group
Elements == { e \in 1..Len(root) : root[e].tag = "element" /\ e # 1 }
ParentTag(e) == IF root[e].parent = 0 THEN "" ELSE root[root[e].parent].tag
\* a `type` that names no primitive of the lexicon and no type of the document
UnresolvedType(e) ==
  /\ Truthy(root[e].at.name)
  /\ TruthyQ(root[e].at.type)
  /\ root[e].at.type.local \notin LexiconLocals
  /\ ~\E i \in 1..Len(root) : /\ root[i].tag \in {"simpleType", "complexType"}
                             /\ root[i].at.name = root[e].at.type.local
\* a `ref` without `name` that matches no element declaration
UnresolvedRef(e) ==
  /\ ~Truthy(root[e].at.name)
  /\ TruthyQ(root[e].at.ref)
  /\ ~\E i \in Elements : root[i].at.name = root[e].at.ref.local
EmptyAcc == [props |-> <<>>, required |-> <<>>, err |-> "none"]
EmptyChoiceAcc == [choice_elements |-> <<>>, choice_properties |-> <<>>, err |-> "none"]

RECURSIVE ElementsFrom(_, _, _)
ElementsFrom(nodes, elements, properties) ==
  IF elements = <<>> THEN [err |-> "none", props |-> properties]
  ELSE LET r == process_element(nodes, Head(elements), properties, "", 1)
       IN IF r.err # "none" THEN r ELSE ElementsFrom(nodes, Tail(elements), r.props)
RECURSIVE SimpleTypesFrom(_, _, _)
SimpleTypesFrom(nodes, types, properties) ==
  IF types = <<>> THEN properties
  ELSE LET name == nodes[Head(types)].at.name
           values == extract_enum_values(nodes, Head(types))
       IN SimpleTypesFrom(nodes, Tail(types),
                          IF Truthy(name) /\ values # <<>>
                          THEN Put(properties, name, [type |-> "string", enum |-> values])
                          ELSE properties)
DocumentOf(nodes) ==
  LET e == ElementsFrom(nodes, findall_desc(nodes, 1, "element"), <<>>)
  IN IF e.err # "none" THEN RaiseResult(e.err)
     ELSE [kind |-> "doc",
           doc |-> [k \in {"$schema", "type", "properties"} |->
                      CASE k = "$schema" -> JSON_SCHEMA_DRAFT
                        [] k = "type" -> "object"
                        [] OTHER -> SimpleTypesFrom(nodes, findall_desc(nodes, 1, "simpleType"),
                                                    e.props)]]
FirstCallResult(inp) ==
  LET t == IF inp.isBytes THEN decode(inp.data) ELSE [ok |-> TRUE, text |-> inp.data]
  IN IF ~t.ok THEN RaiseResult("UnicodeDecodeError")
     ELSE IF IsBlank(t.text) THEN RaiseResult("ValueError")
     ELSE IF ~fromstring(t.text).ok THEN RaiseResult("ParseError")
     ELSE DocumentOf(fromstring(t.text).nodes)

(***************************************************************************)
(* C13.  Calls are stateless.  The Type Lexicon always has its initial     *)
(* contents, between two calls nothing of the previous call is left, and   *)
(* the document or error kind a call ends with is the one a first call on  *)
(* the same input yields, whatever calls came before it.                   *)
(***************************************************************************)
C13_CallsAreStateless ==
  /\ lexicon = XSD_TO_JSON_TYPE_MAPPING
  /\ pc = "idle" =>
       /\ text = <<>> /\ root = <<>> /\ todo = <<>>
       /\ json_schema = EmptySchema /\ result = NoResult
  /\ pc = "done" => result = FirstCallResult(xsd_content)

\* a later call has returned a document built with a fragment of the lexicon
C13_Witness ==
  /\ calls >= 2
  /\ Returned
  /\ \E n \in DOMAIN TopProperties :
       TopProperties[n] = [type |-> "string", format |-> "uri"]

\* the property name an element node yields at the top level: its own name,
\* or the name of the declaration its `ref` resolves to
YieldedName(e) == ResolveChild(root, e).child_name
\* the fragment process_element computes for e on its own
TopFragment(e) == process_element(root, e, <<>>, "", 1).props[YieldedName(e)]
LastYielding(n) ==
  CHOOSE e \in Elements : /\ YieldedName(e) = n
                          /\ \A x \in Elements : YieldedName(x) = n => x <= e
\* the named simple types with enumeration values
EnumTypesNamed(n) ==
  { st \in SimpleTypes : root[st].at.name = n /\ EnumValuesOf(st) # <<>> }

C16_ChoiceFragmentEqualsSequenceFragment ==
  Returned =>
    \A e \in Elements :
      Truthy(root[e].at.name) =>
        LET asChoice == ChoiceChildFragment(root, e, root[e].at.name, "", 2)
            asSequence == SequenceChildFragment(root, e, root[e].at.name, "", 2)
        IN /\ asChoice.err = asSequence.err
           /\ asChoice.err = "none" => /\ asSequence.stored
                                       /\ asChoice.v = asSequence.v

(***************************************************************************)
(* C17.  A declaration whose type is the unqualified name `dateTime` is    *)
(* mapped to {type: string, format: dateTime}, as `xs:dateTime` is, in     *)
(* every context: top-level element, sequence/all child, choice member     *)
(* and attribute.                                                          *)
(***************************************************************************)
C17_UnqualifiedDateTimeInEveryContext ==
  Returned =>
    \A ctx \in Contexts :
      xsd_content.data = TypeDoc(QN(NoPrefix, "dateTime"), ctx) =>
        LET expected == [type |-> "string", format |-> "dateTime"]
        IN CASE ctx = "top" -> TopProperties["e"] = expected
             [] ctx = "attribute" -> TopProperties["holder"].properties["@e"] = expected
             [] OTHER -> TopProperties["holder"].properties["e"] = expected

(***************************************************************************)
(* C18.  The property key of an attribute lacks the `@` marker if and only *)
(* if the attribute is named `testProject` and the complex type is         *)
(* processed with the element path `TestResults` exactly; otherwise the    *)
(* key is `@` followed by the name.  In the special case a required        *)
(* `testProject` is listed in `required` under the bare key.               *)
(***************************************************************************)
\* the element children, by name, of the groups below ct
MemberNames(ct) ==
  { ResolveChild(root, c).child_name :
      c \in { x \in 1..Len(root) : /\ root[x].tag = "element"
                                  /\ IsAncestor(root, ct, x)
                                  /\ root[root[x].parent].tag \in {"sequence", "all", "choice"} } }
\* the calls of process_complex_type for the child elements of the types
\* the top-level loop processes, with their longer paths
NestedCalls ==
  { [ct |-> ComplexTypeOf(root, ResolveChild(root, q[2]).child),
     path |-> q[1].path \o "." \o ResolveChild(root, q[2]).child_name] :
      q \in { r \in ProcessedTypes \X (1..Len(root)) :
                /\ root[r[2]].tag = "element"
                /\ root[r[2]].parent # 0
                /\ root[root[r[2]].parent].tag \in {"sequence", "all", "choice"}
                /\ IsAncestor(root, r[1].ct, r[2])
                /\ Truthy(ResolveChild(root, r[2]).child_name)
                /\ ComplexTypeOf(root, ResolveChild(root, r[2]).child) # 0 } }
C18_MarkerDroppedOnlyForTestResults ==
  Returned =>
    \A p \in ProcessedTypes \cup NestedCalls :
      \A a \in TypedAttributes(p.ct) :
        LET r == process_complex_type(root, p.ct, p.path, 2)
            n == root[a].at.name
            special == n = "testProject" /\ p.path = "TestResults"
        IN r.err = "none" =>
             IF special
             THEN /\ n \in DOMAIN r.v.properties
                  /\ ("@" \o n) \notin DOMAIN r.v.properties
                  /\ root[a].at.use = "required" => InList(n, RequiredOf(r.v))
             ELSE /\ ("@" \o n) \in DOMAIN r.v.properties
                  /\ n \notin MemberNames(p.ct) => n \notin DOMAIN r.v.properties

\* a TestResults element below `suite`: marked under the path
\* suite.TestResults, bare under the path TestResults, and marked for an
\* element `run` of a named type with the same attribute
C18_Witness ==
  /\ Returned
  /\ \E p \in NestedCalls, a \in 1..Len(root) :
       /\ p.path = "suite.TestResults"
       /\ a \in TypedAttributes(p.ct)
       /\ root[a].at.name = "testProject"
       /\ root[a].at.use = "required"
  /\ "@testProject" \in DOMAIN TopProperties["suite"].properties["TestResults"].properties
  /\ "testProject" \notin DOMAIN TopProperties["suite"].properties["TestResults"].properties
  /\ "testProject" \in DOMAIN TopProperties["TestResults"].properties
  /\ TopProperties["TestResults"]["required"] = <<"testProject">>
  /\ "@testProject" \in DOMAIN TopProperties["run"].properties

(***************************************************************************)
(* C19.  An attribute whose type names a simpleType of the document gets   *)
(* the fragment the Restriction Mapper computes for that type (base type,  *)
(* `enum`, facet keywords), as an element of that type does; an attribute  *)
(* whose type is a built-in primitive gets the lexicon fragment.           *)
(***************************************************************************)
C19_AttributeOfNamedSimpleType ==
  Returned =>
    \A t \in TypeNames :
      xsd_content.data = TypeDoc(t, "attribute") =>
        LET def == find_type_definition(root, t.local)
            got == TopProperties["holder"].properties["@e"]
        IN IF HasColon(t) /\ t.prefix \in {"xs", "xsd"}
           THEN ("xs:" \o t.local) \in DOMAIN XSD_TO_JSON_TYPE_MAPPING =>
                  got = XSD_TO_JSON_TYPE_MAPPING["xs:" \o t.local]
           ELSE (def # 0 /\ root[def].tag = "simpleType") =>
                  got = process_simple_type(root, def)

(***************************************************************************)
(* C20.  process_complex_type processes every sequence and all node among  *)
(* the descendants of the complex type, those of the inline complex types  *)
(* of its child elements and choice members included: each named element   *)
(* child of such a group is a property of the enclosing type's fragment    *)
(* and, unless its minOccurs is 0, an entry of its `required`; it is also  *)
(* a property of the fragment of every nested complex type in between.     *)
(***************************************************************************)
\* the named element children of the sequence and all groups at any depth
\* below ct
DescendantGroupChildren(ct) ==
  { c \in 1..Len(root) : /\ root[c].tag = "element"
                         /\ Truthy(root[c].at.name)
                         /\ root[root[c].parent].tag \in {"sequence", "all"}
                         /\ IsAncestor(root, ct, c) }
C20_DescendantGroupsMergeIntoOuter ==
  Returned =>
    \A p \in ProcessedTypes :
      LET outer == FragmentOf(p)
      IN outer.err = "none" =>
           \A c \in DescendantGroupChildren(p.ct) :
             /\ root[c].at.name \in DOMAIN outer.v.properties
             /\ root[c].at.minOccurs # <<"0">> =>
                  InList(root[c].at.name, RequiredOf(outer.v))
             /\ \A nested \in { n \in 1..Len(root) : /\ root[n].tag = "complexType"
                                                    /\ IsAncestor(root, p.ct, n)
                                                    /\ IsAncestor(root, n, c) } :
                  LET inner == process_complex_type(root, nested, p.path, 2)
                  IN inner.err = "none" =>
                       root[c].at.name \in DOMAIN inner.v.properties

\* library > book > title: the grandchild `title` of the inline type of
\* `book` is a required property of `library` and of `book`
C20_Witness ==
  /\ Returned
  /\ \E p \in ProcessedTypes, c \in 1..Len(root) :
       /\ p.path = "library"
       /\ c \in DescendantGroupChildren(p.ct)
       /\ root[c].at.name = "title"
       /\ NearestComplexType(root, c) # p.ct
  /\ "title" \in DOMAIN TopProperties["library"].properties
  /\ InList("title", TopProperties["library"]["required"])
  /\ TopProperties["library"].properties["book"].type = "object"
  /\ "title" \in DOMAIN TopProperties["library"].properties["book"].properties

(***************************************************************************)
(* C21.  For every complex type of a parsed document and every element     *)
(* path, process_complex_type never fails on a missing key, and in the     *)
(* fragment it returns each name of `required` is a key of `properties`:   *)
(* every sequence/all child that is listed as required or wrapped as an    *)
(* array had a property stored under its name first.                       *)
(***************************************************************************)
ComplexTypes == { ct \in 1..Len(root) : root[ct].tag = "complexType" }
C21_RequiredAreProperties ==
  \A ct \in ComplexTypes :
    \A path \in {"", "holder", "TestResults"} :
      LET r == process_complex_type(root, ct, path, 2)
      IN /\ r.err # "KeyError"
         /\ r.err = "none" =>
              \A i \in 1..Len(RequiredOf(r.v)) :
                RequiredOf(r.v)[i] \in DOMAIN r.v.properties

\* a holder whose children have no type information (one of them with a
\* name and a ref) or an unresolved type, all repeated: each is wrapped
\* as an array, and the mandatory ones are listed as required
C21_Witness ==
  /\ Returned
  /\ \E c \in Elements : /\ root[c].at.name = "both"
                         /\ TruthyQ(root[c].at.ref)
                         /\ root[c].at.maxOccurs = UNBOUNDED
                         /\ ParentTag(c) = "sequence"
  /\ TopProperties["holder"]["required"] = <<"bare", "both">>
  /\ TopProperties["holder"].properties["bare"] =
       [type |-> "array", items |-> [type |-> "object", properties |-> <<>>]]
  /\ TopProperties["holder"].properties["both"] =
       [type |-> "array", items |-> [type |-> "object", properties |-> <<>>]]
  /\ TopProperties["holder"].properties["gone"] =
       [type |-> "array", items |-> [type |-> "string"]]

====
